---- MODULE Spec2Model ----
(***************************************************************************)
(* FlowChat WhatsApp gateway: the contact and message collections, the     *)
(* message service (WhatsAppService), the webhook routes, the chat-read    *)
(* route and the status-PUT route, as a state machine over HTTP requests.  *)
(* Every request is handled by one slot of Procs; a slot steps at each     *)
(* store access or provider call of the handler it runs.                   *)
(*   Spec        requests of the two slots interleave freely               *)
(*   SpecSeq     one request at a time (slot r1 only)                      *)
(*   SpecReplay  as SpecSeq, with room for a request and two replays       *)
(*   SpecNorm    the phone normalizer applied to a string, then to its     *)
(*               own result                                                *)
(***************************************************************************)
EXTENDS Integers, Sequences, FiniteSets, TLC

\* ------------------------------------------------------------------ bounds
\* requests handled in one run of SpecSeq
MaxRequests == 2
\* requests handled in one run of SpecReplay
MaxReplay == 3
\* requests handled in one run of Spec
MaxConcurrent == 2
\* longest phone string given to the normalizer in SpecNorm
MaxPhoneLen == 3

\* request slots that may run concurrently
Procs == {"r1", "r2"}

\* ------------------------------------------------------------------ inputs
Digits == {"7"}

\* phone strings are sequences of characters
RawPhones ==
  { <<"+", "7">>, <<"7">>, <<"+", " ", "7">>, <<"w", "+", "7">>, <<>> }

Bodies == {"", "hi"}

\* provider message ids (Twilio SIDs / direct-API message ids); 0 is "no id"
Sids == {1, 2}

CanonicalStatuses == {"pending", "sent", "delivered", "read", "failed"}

\* message ids a status PUT may name, contact ids a chat read may name
PutStatuses == {"", "pending", "read", "failed"}
MsgIds == 1..3
ContactIds == 1..3

\* the form of a Twilio webhook; 0 / "" / << >> stand for a missing field
TwilioForms ==
  [ MessageSid : Sids \cup {0}, SmsSid : {0, 1}, MessageStatus : {"", "delivered"},
    From : RawPhones, Body : Bodies ]

\* the query of a GET verification request: hub.mode, hub.verify_token ("" is
\* a missing parameter) and hub.challenge
HubModes == {"", "subscribe"}
HubTokens == {"", "secret", "WHATSAPP_WEBHOOK_TOKEN"}
HubChallenge == "c1"

\* the JSON body of a direct-API (Meta) webhook: one entry with one change
WhFroms == { <<"+", "7">>, <<"7">>, << >> }

DirectMsgs == [ id : {1}, from : WhFroms, type : {"text", "audio"}, body : Bodies ]

DirectMsgLists ==
  { << >> } \cup { <<m>> : m \in DirectMsgs }
    \cup { << [id |-> 1, from |-> f, type |-> "text", body |-> "hi"],
              [id |-> 2, from |-> g, type |-> "text", body |-> "hi"] >> :
            f \in {<<"7">>}, g \in {<<"7">>, <<"+", "7">>} }

DirectStatusLists ==
  { << >>, << [id |-> 1, status |-> "delivered"] >>, << [id |-> 0, status |-> "delivered"] >>,
    << [id |-> 1, status |-> "bogus"] >> }

Payload(present, object, entry, hm, ms, hs, ss) ==
  [ present |-> present, object |-> object, entry |-> entry,
    has_messages |-> hm, messages |-> ms, has_statuses |-> hs, statuses |-> ss ]

OneTextMsg == << [id |-> 1, from |-> <<"7">>, type |-> "text", body |-> "hi"] >>

DirectPayloads ==
  { Payload(FALSE, FALSE, "missing", FALSE, << >>, FALSE, << >>) }
    \cup { Payload(TRUE, TRUE, "one", TRUE, ms, FALSE, << >>) : ms \in DirectMsgLists }
    \cup { Payload(TRUE, TRUE, "one", FALSE, << >>, TRUE, ss) : ss \in DirectStatusLists }
    \cup { Payload(TRUE, TRUE, "one", TRUE, OneTextMsg, TRUE, ss) : ss \in DirectStatusLists }
    \cup { Payload(TRUE, TRUE, "one", FALSE, << >>, FALSE, << >>),
           Payload(TRUE, FALSE, "one", TRUE, OneTextMsg, FALSE, << >>),
           Payload(TRUE, TRUE, "missing", TRUE, OneTextMsg, FALSE, << >>),
           Payload(TRUE, TRUE, "empty", TRUE, OneTextMsg, FALSE, << >>) }

\* ------------------------------------------------------------------ state
VARIABLES
  contacts,   \* the contacts collection, in insertion order; _id = index
  messages,   \* the messages collection, in insertion order; _id = index
  calls,      \* per request slot: the handler it runs and its locals
  config,     \* the Flask app.config / app.debug values, fixed at start-up
  provider,   \* WhatsAppService._provider, the cached provider name
  left,       \* number of requests the run may still accept
  applied,    \* the status callbacks (provider id, status) handled so far
  norm        \* SpecNorm: a phone string and the normalizer's results for it

vars == <<contacts, messages, calls, config, provider, left, applied, norm>>

\* ------------------------------------------------------------ pure helpers
IsDigit(c) == c \in Digits

digits_only(phone) == SelectSeq(phone, IsDigit)

startswith_plus(s) == Len(s) > 0 /\ s[1] = "+"

\* the '+' is not put in front of the digits
format_phone_number_bare(phone) ==
  IF startswith_plus(phone) THEN phone ELSE digits_only(phone)

\* WhatsAppService._format_phone_number
format_phone_number(phone) ==
  IF startswith_plus(phone) THEN phone
  ELSE IF ~ startswith_plus(digits_only(phone)) THEN <<"+">> \o digits_only(phone)
  ELSE phone

\* Contact.find_by_phone: find_one returns the first match, 0 for None
find_by_phone(phone) ==
  IF \E i \in 1..Len(contacts) : contacts[i].phone = phone
  THEN CHOOSE i \in 1..Len(contacts) :
         /\ contacts[i].phone = phone
         /\ \A j \in 1..(i - 1) : contacts[j].phone # phone
  ELSE 0

\* Message.__init__ / to_dict: the fields of a message document that the
\* gateway reads or writes
NewMessage(content, from_user, to_contact, status, direction, pmid, wamid) ==
  [ content     |-> content,
    from_user   |-> from_user,
    to_contact  |-> to_contact,
    status      |-> status,
    direction   |-> direction,
    provider_message_id |-> pmid,
    whatsapp_message_id |-> wamid,
    error       |-> "",
    status_history |-> << >> ]

\* send_message lines 89-97: the outbound record
pending_message(content, contact) ==
  NewMessage(content, 0, contact, "pending", "outbound", 0, 0)

\* the inbound record stored with the /webhooks route's status
inbound_message_received(content, contact, message_sid) ==
  NewMessage(content, contact, 0, "received", "inbound", message_sid, 0)

\* receive_message lines 193-212: the inbound record
inbound_message(content, contact, message_sid) ==
  NewMessage(content, contact, 0, "delivered", "inbound", message_sid, 0)

\* _handle_incoming_messages lines 107-117: the record of the /webhooks route
webhook_message(text, contact, message_id) ==
  NewMessage(text, 0, contact, "received", "outbound", 0, message_id)

NoMsg == NewMessage("", 0, 0, "none", "none", 0, 0)

\* the transport result dictionary of TwilioService.send_message /
\* _send_via_direct_whatsapp
NoResult == [success |-> FALSE, sid |-> 0, error |-> ""]

\* a request slot with no request
IdleCall ==
  [ op      |-> "none",
    pc      |-> "idle",
    phone   |-> << >>,
    content |-> "",
    sid     |-> 0,
    pstatus |-> "",
    contact |-> 0,
    made    |-> 0,
    mid     |-> 0,
    msg     |-> NoMsg,
    result  |-> NoResult,
    ret     |-> "none",
    sig     |-> "none",
    http    |-> 0,
    todo    |-> << >>,
    c0      |-> 0,
    m0      |-> 0,
    had0    |-> FALSE,
    lookup  |-> "none",
    race    |-> 0,
    mode    |-> "",
    token   |-> "",
    body    |-> "",
    via     |-> "none",
    tries   |-> 0,
    sts     |-> << >>,
    target  |-> 0 ]

\* the write is dropped
save_lost(mid, doc) == messages

\* Message.save: update_one({_id}, {$set: to_dict()}, upsert=True)
save(mid, doc) == [messages EXCEPT ![mid] = doc]

\* Message.update_status: update_one({_id}, {$set: {status, updated_at}})
update_status(mid, status) == [messages EXCEPT ![mid].status = status]

\* the attributes class Message defines (methods and instance fields)
MessageAttrs ==
  { "collection_name", "ensure_indexes", "to_dict", "find_by_id", "find_by_contact",
    "find_chat_messages", "from_dict", "create", "save", "update_status", "update",
    "delete", "count_unread_messages",
    "content", "from_user", "to_contact", "message_type", "status", "direction",
    "metadata", "_id", "created_at", "updated_at" }

\* lines 305-313: status_mapping.get(status.lower(), 'unknown')
standard_status(status) ==
  CASE status = "sent" -> "sent"
    [] status = "delivered" -> "delivered"
    [] status = "read" -> "read"
    [] status = "failed" -> "failed"
    [] status = "queued" -> "pending"
    [] OTHER -> "unknown"

\* a handler that finds the Message and stores a metadata map holding only
\* the new status_history
handle_status_update_clobbers(whatsapp_message_id, status) ==
  LET found == { i \in 1..Len(messages) :
                   whatsapp_message_id # 0
                     /\ messages[i].provider_message_id = whatsapp_message_id } IN
  IF found = {}
  THEN [ raised |-> FALSE, lookup |-> "absent", messages |-> messages ]
  ELSE LET i == CHOOSE i \in found : \A j \in found : i <= j IN
       [ raised |-> FALSE, lookup |-> "found",
         messages |-> [messages EXCEPT ![i].status = standard_status(status),
                                       ![i].status_history = <<status>>,
                                       ![i].provider_message_id = 0,
                                       ![i].error = ""] ]

\* the handler with a lookup that works as a query on
\* metadata.provider_message_id (an id of None matches the documents without
\* the field), followed by the update of lines 316-326
handle_status_update_applies(whatsapp_message_id, status) ==
  LET found == { i \in 1..Len(messages) :
                   messages[i].provider_message_id = whatsapp_message_id } IN
  IF found = {}
  THEN [ raised |-> FALSE, lookup |-> "absent", messages |-> messages ]
  ELSE LET i == CHOOSE i \in found : \A j \in found : i <= j IN
       [ raised |-> FALSE, lookup |-> "found",
         messages |-> [messages EXCEPT ![i].status = standard_status(status),
                                       ![i].status_history = Append(@, status)] ]

\* WhatsAppService.handle_status_update: line 299 evaluates
\* Message.find_by_provider_id, which class Message does not define, so the
\* call raises AttributeError before any store access
handle_status_update(whatsapp_message_id, status) ==
  [ raised |-> ("find_by_provider_id" \notin MessageAttrs),
    lookup |-> IF "find_by_provider_id" \notin MessageAttrs THEN "AttributeError" ELSE "absent",
    messages |-> messages ]

\* webhook lines 231-241: the result of the signature check ("skipped" in
\* debug mode) and whether the request is rejected for it
signature(sig_ok) ==
  IF config.debug THEN "skipped" ELSE IF sig_ok THEN "valid" ELSE "invalid"

\* a failed check does not stop the handler
signature_rejected_never(sig_ok) == FALSE

signature_rejected(sig_ok) == ~ config.debug /\ ~ sig_ok

\* WhatsAppService.get_provider: the value after the call
get_provider ==
  IF provider = "None"
  THEN (IF config.WHATSAPP_PROVIDER = "twilio" THEN "twilio" ELSE "direct")
  ELSE provider

\* Message.find_by_contact: the ids of the messages to or from a contact
find_by_contact(c) ==
  { i \in 1..Len(messages) : messages[i].to_contact = c \/ messages[i].from_user = c }

\* the sids some stored message already carries
UsedSids == { messages[i].provider_message_id : i \in 1..Len(messages) }

\* app.config / app.debug / os.environ at start-up: the deployments the
\* model starts from.  Every branch on a configuration value is taken by one
\* of them (TWILIO_ACCOUNT_SID is read only when TWILIO_ENABLED,
\* DIRECT_WHATSAPP_ENABLED only when the Twilio test fails, debug only when
\* the provider is twilio).
Deployment(te, sid, de, debug, prov, verify_token) ==
  [ TWILIO_ENABLED |-> te, TWILIO_ACCOUNT_SID |-> sid, DIRECT_WHATSAPP_ENABLED |-> de,
    debug |-> debug, WHATSAPP_PROVIDER |-> prov, WHATSAPP_VERIFY_TOKEN |-> verify_token ]

\* WHATSAPP_VERIFY_TOKEN is read only when the provider is direct; "" is unset
Configs ==
  { Deployment(TRUE,  TRUE,  FALSE, FALSE, "twilio", ""),
    Deployment(TRUE,  TRUE,  TRUE,  TRUE,  "twilio", "secret"),
    Deployment(TRUE,  TRUE,  FALSE, FALSE, "direct", "secret"),
    Deployment(TRUE,  FALSE, TRUE,  FALSE, "direct", ""),
    Deployment(FALSE, FALSE, FALSE, FALSE, "twilio", "") }

\* the characters of the phone strings given to the normalizer
PhoneChars == Digits \cup {"+", " ", "w"}

NormPhones == UNION { [1..n -> PhoneChars] : n \in 0..MaxPhoneLen }

\* no string is being normalized
NoNorm == [pc |-> "off", phone |-> << >>, once |-> << >>, twice |-> << >>]

\* the send whose dispatch the provider accepted with this id and whose own
\* post-dispatch write (lines 125-132) is still to come; 0 if there is none
RacingSend(sid) ==
  IF sid # 0 /\ \E q \in Procs : /\ calls[q].op = "send" /\ calls[q].pc = "finish"
                                  /\ calls[q].result.success /\ calls[q].result.sid = sid
  THEN calls[CHOOSE q \in Procs : /\ calls[q].op = "send" /\ calls[q].pc = "finish"
                                  /\ calls[q].result.success
                                  /\ calls[q].result.sid = sid].mid
  ELSE 0

\* ------------------------------------------------------------------- Init
Init ==
  /\ contacts = << >>
  /\ messages = << >>
  /\ calls = [p \in Procs |-> IdleCall]
  /\ config \in Configs
  /\ provider = "None"
  /\ left = MaxConcurrent
  /\ applied = {}
  /\ norm = NoNorm

InitSeq ==
  /\ contacts = << >>
  /\ messages = << >>
  /\ calls = [p \in Procs |-> IdleCall]
  /\ config \in Configs
  /\ provider = "None"
  /\ left = MaxRequests
  /\ applied = {}
  /\ norm = NoNorm

InitReplay ==
  /\ contacts = << >>
  /\ messages = << >>
  /\ calls = [p \in Procs |-> IdleCall]
  /\ config \in Configs
  /\ provider = "None"
  /\ left = MaxReplay
  /\ applied = {}
  /\ norm = NoNorm

\* a phone string is about to be normalized; no request is accepted
InitNorm ==
  /\ contacts = << >>
  /\ messages = << >>
  /\ calls = [p \in Procs |-> IdleCall]
  /\ config = Deployment(TRUE, TRUE, FALSE, FALSE, "twilio", "")
  /\ provider = "None"
  /\ left = 0
  /\ applied = {}
  /\ norm \in { [pc |-> "input", phone |-> ph, once |-> << >>, twice |-> << >>] :
                 ph \in NormPhones }

\* start of a request in slot p: remember the sizes of the collections
Begin(p, op, fields) ==
  [ f \in DOMAIN IdleCall |->
      IF f \in DOMAIN fields THEN fields[f]
      ELSE IF f = "op" THEN op
      ELSE IF f = "c0" THEN Len(contacts)
      ELSE IF f = "m0" THEN Len(messages)
      ELSE IdleCall[f] ]

\* a free slot takes the next request; r2 is used only while r1 is busy
Accept(p) ==
  /\ calls[p].pc = "idle"
  /\ p = "r1" \/ calls["r1"].pc # "idle"
  /\ left > 0
  /\ left' = left - 1

Set(p, fields) ==
  [calls EXCEPT ![p] =
     [ f \in DOMAIN IdleCall |-> IF f \in DOMAIN fields THEN fields[f] ELSE calls[p][f] ]]

\* ------------------------------------------------- WhatsAppService.send_message
\* lines 67-80: input checks and phone formatting
SendStart(p) ==
  /\ Accept(p)
  /\ \E content \in Bodies, media \in BOOLEAN, to_contact \in RawPhones :
       /\ LET to_phone == format_phone_number(to_contact) IN
          calls' = [calls EXCEPT ![p] =
            IF content = "" /\ ~ media
            THEN Begin(p, "send", [pc |-> "done", ret |-> "error"])
            ELSE IF Len(to_phone) = 0
            THEN Begin(p, "send", [pc |-> "done", ret |-> "error"])
            ELSE Begin(p, "send",
                   [pc |-> "find", phone |-> to_phone, content |-> content,
                    had0 |-> (find_by_phone(to_phone) # 0)])]
       /\ UNCHANGED <<contacts, messages, config, provider, applied, norm>>

\* _ensure_contact_exists, line 243: Contact.find_by_phone
EnsureFind(p) ==
  /\ calls[p].pc = "find"
  /\ LET c == find_by_phone(calls[p].phone) IN
     calls' = Set(p, [contact |-> c,
                      pc |-> IF c # 0 THEN "create_message" ELSE "create_contact"])
  /\ UNCHANGED <<contacts, messages, config, provider, left, applied, norm>>

\* _ensure_contact_exists, lines 248-259: Contact.create
EnsureCreate(p) ==
  /\ calls[p].pc = "create_contact"
  /\ contacts' = Append(contacts, [phone |-> calls[p].phone, source |-> "whatsapp"])
  /\ calls' = Set(p, [contact |-> Len(contacts) + 1, made |-> Len(contacts) + 1,
                      pc |-> "create_message"])
  /\ UNCHANGED <<messages, config, provider, left, applied, norm>>

\* lines 88-104: Message.create of the pending outbound record; Message.create
\* raises ValueError on empty content, which line 146 turns into an error dict
SendCreateMessage(p) ==
  /\ calls[p].pc = "create_message"
  /\ calls[p].op = "send"
  /\ IF calls[p].content = ""
     THEN /\ calls' = Set(p, [pc |-> "done", ret |-> "error"])
          /\ UNCHANGED messages
     ELSE /\ LET m == pending_message(calls[p].content, calls[p].contact) IN
             /\ messages' = Append(messages, m)
             /\ calls' = Set(p, [pc |-> "dispatch", mid |-> Len(messages) + 1, msg |-> m])
  /\ UNCHANGED <<contacts, config, provider, left, applied, norm>>

\* lines 106-122: choice of transport and the provider call
SendDispatch(p) ==
  /\ calls[p].pc = "dispatch"
  /\ IF config.TWILIO_ENABLED /\ config.TWILIO_ACCOUNT_SID
     THEN \* _send_via_twilio: TwilioService() is built outside the try block
          /\ UNCHANGED messages
          /\ \E ctor_raises \in BOOLEAN :
               IF ctor_raises
               THEN calls' = Set(p, [pc |-> "done", ret |-> "error", via |-> "twilio"])
               ELSE \/ \E sid \in Sids \ UsedSids :
                         calls' = Set(p, [pc |-> "finish", via |-> "twilio",
                                          tries |-> calls[p].tries + 1,
                                          result |-> [success |-> TRUE, sid |-> sid, error |-> ""]])
                    \/ calls' = Set(p, [pc |-> "finish", via |-> "twilio",
                                        tries |-> calls[p].tries + 1,
                                        result |-> [success |-> FALSE, sid |-> 0, error |-> "twilio"]])
     ELSE IF config.DIRECT_WHATSAPP_ENABLED
     THEN \* _send_via_direct_whatsapp: placeholder, always a failure dict
          /\ UNCHANGED messages
          /\ calls' = Set(p, [pc |-> "finish", via |-> "direct",
                              tries |-> calls[p].tries + 1,
                              result |-> [success |-> FALSE, sid |-> 0, error |-> "not implemented"]])
     ELSE \* no provider: update_status('failed'), then save() of the whole document
          LET m == [calls[p].msg EXCEPT !.status = "failed", !.error = "no provider"] IN
          /\ messages' = save(calls[p].mid, m)
          /\ calls' = Set(p, [pc |-> "done", ret |-> "error", msg |-> m, via |-> "no_provider"])
  /\ UNCHANGED <<contacts, config, provider, left, applied, norm>>

\* a failed dispatch is tried once more before the Message is marked failed
SendFinish_retries(p) ==
  /\ calls[p].pc = "finish"
  /\ LET r == calls[p].result IN
     IF r.success
     THEN LET m == [calls[p].msg EXCEPT !.provider_message_id = r.sid,
                                        !.status = "sent"] IN
          /\ messages' = save(calls[p].mid, m)
          /\ calls' = Set(p, [pc |-> "done", ret |-> "message", msg |-> m])
     ELSE IF calls[p].tries < 2
     THEN /\ UNCHANGED messages
          /\ calls' = Set(p, [pc |-> "dispatch"])
     ELSE LET m == [calls[p].msg EXCEPT !.status = "failed", !.error = r.error] IN
          /\ messages' = save(calls[p].mid, m)
          /\ calls' = Set(p, [pc |-> "done", ret |-> "error_with_id", msg |-> m])
  /\ UNCHANGED <<contacts, config, provider, left, applied, norm>>

\* lines 124-144: the post-dispatch write of the in-memory message
SendFinish(p) ==
  /\ calls[p].pc = "finish"
  /\ LET r == calls[p].result IN
     IF r.success
     THEN IF r.sid # 0
          THEN LET m == [calls[p].msg EXCEPT !.provider_message_id = r.sid,
                                             !.status = "sent"] IN
               /\ messages' = save(calls[p].mid, m)
               /\ calls' = Set(p, [pc |-> "done", ret |-> "message", msg |-> m])
          ELSE /\ UNCHANGED messages
               /\ calls' = Set(p, [pc |-> "done", ret |-> "message"])
     ELSE LET m == [calls[p].msg EXCEPT !.status = "failed", !.error = r.error] IN
          /\ messages' = save(calls[p].mid, m)
          /\ calls' = Set(p, [pc |-> "done", ret |-> "error_with_id", msg |-> m])
  /\ UNCHANGED <<contacts, config, provider, left, applied, norm>>

\* ------------------------------------------- POST /api/whatsapp/webhook
\* Twilio mode, lines 226-270, with process_incoming_webhook lines 351-397
\* and receive_message lines 166-179 up to the first store access
WebhookTwilio(p) ==
  /\ Accept(p)
  /\ \E form \in TwilioForms, sig_ok \in BOOLEAN :
       /\ get_provider = "twilio"
       /\ provider' = get_provider
       /\ LET sg == signature(sig_ok)
              st == handle_status_update(form.MessageSid, form.MessageStatus)
              seen == [sig |-> sg, sid |-> form.MessageSid, pstatus |-> form.MessageStatus,
                       race |-> RacingSend(form.MessageSid)] IN
          IF signature_rejected(sig_ok)
          THEN /\ calls' = [calls EXCEPT ![p] =
                      Begin(p, "hook_twilio", seen @@ [pc |-> "done", http |-> 403])]
               /\ UNCHANGED <<messages, applied>>
          ELSE IF form.MessageSid # 0
          THEN /\ calls' = [calls EXCEPT ![p] =
                      IF Len(form.From) = 0
                      THEN Begin(p, "hook_twilio",
                             seen @@ [pc |-> "done", ret |-> "error", http |-> 200])
                      ELSE Begin(p, "hook_twilio",
                             seen @@ [pc |-> "find", phone |-> format_phone_number(form.From),
                                      content |-> form.Body,
                                      had0 |-> (find_by_phone(format_phone_number(form.From)) # 0)])]
               /\ UNCHANGED <<messages, applied>>
          ELSE IF form.SmsSid # 0 /\ form.MessageStatus # ""
          THEN /\ calls' = [calls EXCEPT ![p] =
                      Begin(p, "hook_twilio",
                        seen @@ [pc |-> "done", ret |-> "status", lookup |-> st.lookup,
                                 http |-> IF st.raised THEN 500 ELSE 200])]
               /\ messages' = st.messages
               /\ applied' = applied \cup {<<form.MessageSid, form.MessageStatus>>}
          ELSE /\ calls' = [calls EXCEPT ![p] =
                      Begin(p, "hook_twilio", seen @@ [pc |-> "done", http |-> 200])]
               /\ UNCHANGED <<messages, applied>>
       /\ UNCHANGED <<contacts, config, norm>>

\* line 223 with get_provider lines 30-37: the first read builds
\* TwilioService(), whose constructor may raise; the handler answers 500
\* (line 287) and _provider stays None
WebhookProviderError(p) ==
  /\ Accept(p)
  /\ provider = "None"
  /\ config.WHATSAPP_PROVIDER = "twilio"
  /\ calls' = [calls EXCEPT ![p] =
       Begin(p, "hook_twilio", [pc |-> "done", ret |-> "error", http |-> 500])]
  /\ UNCHANGED <<contacts, messages, config, provider, applied, norm>>

\* direct mode, lines 272-285, with process_incoming_webhook lines 399-463
WebhookDirect(p) ==
  /\ Accept(p)
  /\ \E payload \in DirectPayloads :
       /\ get_provider = "direct"
       /\ provider' = get_provider
       /\ LET m == payload.messages[1]
              body == IF m.type = "text" THEN m.body ELSE ""
              seen == [sts |-> IF payload.present /\ payload.entry = "one" /\ payload.has_statuses
                               THEN payload.statuses ELSE << >>] IN
          calls' = [calls EXCEPT ![p] =
            IF ~ payload.present
            THEN Begin(p, "hook_direct", seen @@ [pc |-> "done", ret |-> "error", http |-> 400])
            ELSE IF payload.entry = "empty"
            THEN Begin(p, "hook_direct", seen @@ [pc |-> "done", ret |-> "error", http |-> 200])
            ELSE IF payload.entry = "missing" \/ ~ payload.has_messages
            THEN Begin(p, "hook_direct", seen @@ [pc |-> "done", ret |-> "error", http |-> 200])
            ELSE IF Len(payload.messages) = 0
            THEN Begin(p, "hook_direct", seen @@ [pc |-> "done", ret |-> "error", http |-> 200])
            ELSE IF Len(m.from) = 0
            THEN Begin(p, "hook_direct", seen @@ [pc |-> "done", ret |-> "error", http |-> 200])
            ELSE Begin(p, "hook_direct", seen @@
                   [pc |-> "find", phone |-> format_phone_number(m.from),
                    content |-> body, sid |-> m.id,
                    had0 |-> (find_by_phone(format_phone_number(m.from)) # 0)])]
       /\ UNCHANGED <<contacts, messages, config, applied, norm>>

\* receive_message lines 187-221 (Message.create of the inbound record) and
\* the route's response
RecvCreateMessage(p) ==
  /\ calls[p].pc = "create_message"
  /\ calls[p].op \in {"hook_twilio", "hook_direct"}
  /\ IF calls[p].content = ""
     THEN /\ calls' = Set(p, [pc |-> "done", ret |-> "error", http |-> 200])
          /\ UNCHANGED messages
     ELSE /\ LET m == inbound_message(calls[p].content, calls[p].contact, calls[p].sid) IN
             /\ messages' = Append(messages, m)
             /\ calls' = Set(p, [pc |-> "done", ret |-> "message", http |-> 200,
                                 mid |-> Len(messages) + 1, msg |-> m])
  /\ UNCHANGED <<contacts, config, provider, left, applied, norm>>

\* ------------------------------------------------ POST /webhooks/whatsapp
\* whatsapp_webhook lines 43-72 and _handle_status_updates
WhStart(p) ==
  /\ Accept(p)
  /\ \E payload \in DirectPayloads :
       /\ LET valid == { i \in 1..Len(payload.statuses) :
                           payload.statuses[i].id # 0 /\ payload.statuses[i].status # "" }
              s  == payload.statuses[CHOOSE i \in valid : \A j \in valid : i <= j]
              st == handle_status_update(s.id, s.status)
              texts == SelectSeq(payload.messages, LAMBDA m : m.type = "text")
              seen == [sts |-> IF payload.present /\ payload.object /\ payload.entry = "one"
                                    /\ payload.has_statuses
                               THEN payload.statuses ELSE << >>] IN
          IF ~ payload.present \/ ~ payload.object \/ payload.entry # "one"
          THEN /\ calls' = [calls EXCEPT ![p] = Begin(p, "wh", seen @@ [pc |-> "done", http |-> 200])]
               /\ UNCHANGED <<messages, applied>>
          ELSE IF payload.has_statuses /\ valid # {} /\ st.raised
          THEN /\ calls' = [calls EXCEPT ![p] =
                      Begin(p, "wh", seen @@ [pc |-> "done", ret |-> "status", http |-> 200,
                                      sid |-> s.id, pstatus |-> s.status,
                                      lookup |-> st.lookup, race |-> RacingSend(s.id)])]
               /\ UNCHANGED messages
               /\ applied' = applied \cup {<<s.id, s.status>>}
          ELSE /\ messages' = IF payload.has_statuses /\ valid # {} THEN st.messages ELSE messages
               /\ applied' = IF payload.has_statuses /\ valid # {}
                             THEN applied \cup {<<s.id, s.status>>} ELSE applied
               /\ calls' = [calls EXCEPT ![p] =
                      IF payload.has_messages /\ Len(texts) > 0
                      THEN Begin(p, "wh", seen @@ [pc |-> "wh_find", todo |-> texts])
                      ELSE Begin(p, "wh", seen @@ [pc |-> "done", http |-> 200])]
       /\ UNCHANGED <<contacts, config, provider, norm>>

\* _handle_incoming_messages line 100: Contact.find_by_phone of the raw sender
WhFind(p) ==
  /\ calls[p].pc = "wh_find"
  /\ LET c == find_by_phone(Head(calls[p].todo).from) IN
     calls' = Set(p, [contact |-> c, pc |-> IF c # 0 THEN "wh_save" ELSE "wh_contact"])
  /\ UNCHANGED <<contacts, messages, config, provider, left, applied, norm>>

\* _handle_incoming_messages lines 101-103: Contact(phone=from_phone).save()
WhCreateContact(p) ==
  /\ calls[p].pc = "wh_contact"
  /\ contacts' = Append(contacts, [phone |-> Head(calls[p].todo).from, source |-> "none"])
  /\ calls' = Set(p, [contact |-> Len(contacts) + 1, made |-> Len(contacts) + 1,
                      pc |-> "wh_save"])
  /\ UNCHANGED <<messages, config, provider, left, applied, norm>>

\* _handle_incoming_messages lines 105-118: Message(...).save(), next message
WhSave(p) ==
  /\ calls[p].pc = "wh_save"
  /\ LET m == Head(calls[p].todo)
         doc == webhook_message(m.body, calls[p].contact, m.id) IN
     /\ messages' = Append(messages, doc)
     /\ calls' = IF Len(calls[p].todo) > 1
                 THEN Set(p, [pc |-> "wh_find", todo |-> Tail(calls[p].todo),
                              mid |-> Len(messages) + 1])
                 ELSE Set(p, [pc |-> "done", todo |-> << >>, http |-> 200,
                              mid |-> Len(messages) + 1])
  /\ UNCHANGED <<contacts, config, provider, left, applied, norm>>

\* ------------------------------------------- GET /api/whatsapp/webhook
\* webhook_verify lines 303-336
WebhookVerify(p) ==
  /\ Accept(p)
  /\ \E mode \in HubModes, token \in HubTokens :
       /\ \E ctor_raises \in BOOLEAN :
            IF provider = "None" /\ config.WHATSAPP_PROVIDER = "twilio" /\ ctor_raises
            THEN /\ provider' = provider
                 /\ calls' = [calls EXCEPT ![p] =
                      Begin(p, "verify", [pc |-> "done", http |-> 500, mode |-> mode,
                                          token |-> token])]
            ELSE /\ provider' = get_provider
                 /\ calls' = [calls EXCEPT ![p] =
                      IF get_provider = "twilio"
                      THEN Begin(p, "verify", [pc |-> "done", http |-> 200, mode |-> mode,
                                               token |-> token])
                      ELSE IF mode # "" /\ token # "" /\ mode = "subscribe"
                              /\ token = config.WHATSAPP_VERIFY_TOKEN
                      THEN Begin(p, "verify", [pc |-> "done", http |-> 200, mode |-> mode,
                                               token |-> token, body |-> HubChallenge])
                      ELSE Begin(p, "verify", [pc |-> "done", http |-> 403, mode |-> mode,
                                               token |-> token])]
       /\ UNCHANGED <<contacts, messages, config, applied, norm>>

\* ------------------------------------------------ GET /webhooks/whatsapp
\* verify_webhook lines 21-32: the token is compared with a literal
verify_webhook(p) ==
  /\ Accept(p)
  /\ \E mode \in HubModes, token \in HubTokens :
       /\ calls' = [calls EXCEPT ![p] =
            IF mode = "subscribe" /\ token = "WHATSAPP_WEBHOOK_TOKEN"
            THEN Begin(p, "verify_wh", [pc |-> "done", http |-> 200, mode |-> mode,
                                        token |-> token, body |-> HubChallenge])
            ELSE Begin(p, "verify_wh", [pc |-> "done", http |-> 403, mode |-> mode,
                                        token |-> token, body |-> "Verification failed"])]
       /\ UNCHANGED <<contacts, messages, config, provider, applied, norm>>

\* ------------------------------------- GET /api/whatsapp/chat/<contact_id>
\* get_chat lines 357-360: the contact id is a phone number
ChatByPhone(p) ==
  /\ Accept(p)
  /\ \E phone \in RawPhones :
       /\ startswith_plus(phone)
       /\ LET c == find_by_phone(phone) IN
          calls' = [calls EXCEPT ![p] =
            Begin(p, "chat", [phone |-> phone, contact |-> c,
                              pc |-> IF c # 0 THEN "chat_read" ELSE "chat_contact"])]
       /\ UNCHANGED <<contacts, messages, config, provider, applied, norm>>

\* get_chat lines 361-367: Contact.create for an unknown phone
ChatCreateContact(p) ==
  /\ calls[p].pc = "chat_contact"
  /\ contacts' = Append(contacts, [phone |-> calls[p].phone, source |-> "chat_api"])
  /\ calls' = Set(p, [contact |-> Len(contacts) + 1, made |-> Len(contacts) + 1,
                      pc |-> "chat_read"])
  /\ UNCHANGED <<messages, config, provider, left, applied, norm>>

\* get_chat lines 371-380: the contact id is an ObjectId
ChatById(p) ==
  /\ Accept(p)
  /\ \E cid \in ContactIds :
       /\ calls' = [calls EXCEPT ![p] =
            IF cid \in 1..Len(contacts)
            THEN Begin(p, "chat", [contact |-> cid, pc |-> "chat_read"])
            ELSE Begin(p, "chat", [pc |-> "done", http |-> 404])]
       /\ UNCHANGED <<contacts, messages, config, provider, applied, norm>>

\* get_chat lines 382-424: the messages of the contact; every inbound one
\* that is not read gets update_status('read').  With a logged-in user the
\* query is find_chat_messages, which matches no inbound record.
ChatRead(p) ==
  /\ calls[p].pc = "chat_read"
  /\ \E authed \in BOOLEAN :
       LET found == IF authed THEN {} ELSE find_by_contact(calls[p].contact) IN
       messages' = [ i \in 1..Len(messages) |->
                       IF i \in found /\ messages[i].direction = "inbound"
                                      /\ messages[i].status # "read"
                       THEN [messages[i] EXCEPT !.status = "read"]
                       ELSE messages[i] ]
  /\ calls' = Set(p, [pc |-> "done", http |-> 200])
  /\ UNCHANGED <<contacts, config, provider, left, applied, norm>>

\* ------------------------------------------ PUT /messages/<id>/status
\* the update is written with upsert, as Message.save does, without the
\* lookup of line 81
PutStatus_upserts(p) ==
  /\ Accept(p)
  /\ \E message_id \in MsgIds, status \in PutStatuses :
       /\ IF status = ""
          THEN /\ calls' = [calls EXCEPT ![p] = Begin(p, "put", [pc |-> "done", http |-> 400])]
               /\ UNCHANGED messages
          ELSE IF message_id \notin 1..Len(messages)
          THEN /\ messages' = Append(messages, [NoMsg EXCEPT !.status = status])
               /\ calls' = [calls EXCEPT ![p] =
                    Begin(p, "put", [pc |-> "done", http |-> 200, target |-> message_id,
                                     pstatus |-> status])]
          ELSE /\ messages' = update_status(message_id, status)
               /\ calls' = [calls EXCEPT ![p] =
                    Begin(p, "put", [pc |-> "done", http |-> 200, mid |-> message_id,
                                     target |-> message_id, pstatus |-> status])]
       /\ UNCHANGED <<contacts, config, provider, applied, norm>>

\* update_message_status lines 68-88
PutStatus(p) ==
  /\ Accept(p)
  /\ \E message_id \in MsgIds, status \in PutStatuses :
       /\ IF status = ""
          THEN /\ calls' = [calls EXCEPT ![p] = Begin(p, "put", [pc |-> "done", http |-> 400])]
               /\ UNCHANGED messages
          ELSE IF message_id \notin 1..Len(messages)
          THEN /\ calls' = [calls EXCEPT ![p] =
                    Begin(p, "put", [pc |-> "done", http |-> 404, target |-> message_id,
                                     pstatus |-> status])]
               /\ UNCHANGED messages
          ELSE /\ messages' = update_status(message_id, status)
               /\ calls' = [calls EXCEPT ![p] =
                    Begin(p, "put", [pc |-> "done", http |-> 200, mid |-> message_id,
                                     target |-> message_id, pstatus |-> status])]
       /\ UNCHANGED <<contacts, config, provider, applied, norm>>

\* the response has been delivered; the slot is free for the next request
Return(p) ==
  /\ calls[p].pc = "done"
  /\ calls' = [calls EXCEPT ![p] = IdleCall]
  /\ UNCHANGED <<contacts, messages, config, provider, left, applied, norm>>

Step(p) ==
  \/ SendStart(p)
  \/ EnsureFind(p)
  \/ EnsureCreate(p)
  \/ SendCreateMessage(p)
  \/ SendDispatch(p)
  \/ SendFinish(p)
  \/ WebhookTwilio(p)
  \/ WebhookProviderError(p)
  \/ WebhookDirect(p)
  \/ WebhookVerify(p)
  \/ verify_webhook(p)
  \/ RecvCreateMessage(p)
  \/ WhStart(p)
  \/ WhFind(p)
  \/ WhCreateContact(p)
  \/ WhSave(p)
  \/ ChatByPhone(p)
  \/ ChatCreateContact(p)
  \/ ChatById(p)
  \/ ChatRead(p)
  \/ PutStatus(p)
  \/ Return(p)

Next == \E p \in Procs : Step(p)

NextSeq == Step("r1")

\* _format_phone_number applied to the input string
Normalize ==
  /\ norm.pc = "input"
  /\ norm' = [norm EXCEPT !.pc = "once", !.once = format_phone_number(norm.phone)]
  /\ UNCHANGED <<contacts, messages, calls, config, provider, left, applied>>

\* _format_phone_number applied to its own result
NormalizeAgain ==
  /\ norm.pc = "once"
  /\ norm' = [norm EXCEPT !.pc = "twice", !.twice = format_phone_number(norm.once)]
  /\ UNCHANGED <<contacts, messages, calls, config, provider, left, applied>>

NextNorm == Normalize \/ NormalizeAgain

Spec == Init /\ [][Next]_vars

SpecSeq == InitSeq /\ [][NextSeq]_vars

SpecReplay == InitReplay /\ [][NextSeq]_vars

SpecNorm == InitNorm /\ [][NextNorm]_vars

\* ================================================================ claims
HookOps == {"hook_twilio", "hook_direct", "wh"}

ResolverOps == {"send", "hook_twilio", "hook_direct"}

\* the slot has come back from _ensure_contact_exists with a contact
Resolved(p) ==
  /\ calls[p].op \in ResolverOps
  /\ calls[p].contact # 0
  /\ calls[p].pc \in {"create_message", "dispatch", "finish", "done"}

WithPhone(phone) == { i \in 1..Len(contacts) : contacts[i].phone = phone }

\* the contacts with this phone that the resolver created
ResolverMade(phone) == { i \in WithPhone(phone) : contacts[i].source = "whatsapp" }

\* C1: calls of the contact resolver for one phone, however their find and
\* create steps interleave, all return the same Contact id, and the resolver
\* has created at most one Contact with that phone.
C1_ResolveOnce ==
  \A p, q \in Procs :
    (Resolved(p) /\ Resolved(q) /\ calls[p].phone = calls[q].phone)
      => /\ calls[p].contact = calls[q].contact
         /\ Cardinality(ResolverMade(calls[p].phone)) <= 1

Rank(status) ==
  CASE status = "pending" -> 0
    [] status = "sent" -> 1
    [] status = "delivered" -> 2
    [] status = "read" -> 3
    [] OTHER -> 0 - 1

Backward(s, t) == Rank(s) >= 0 /\ Rank(t) >= 0 /\ Rank(t) < Rank(s)

\* C2: no step of a send, status callback, chat read or status PUT moves a
\* stored status backward in pending < sent < delivered < read.
C2_NoBackwardStatus ==
  [][\A i \in 1..Len(messages) : ~ Backward(messages[i].status, messages'[i].status)]_vars

\* C3: when send_message returns after creating its Message, the stored
\* status is not pending; if the call reports an error the Message is failed
\* and carries an error detail.
C3_SendNeverLeavesPending ==
  \A p \in Procs :
    (calls[p].op = "send" /\ calls[p].pc = "done" /\ calls[p].mid # 0)
      => /\ messages[calls[p].mid].status # "pending"
         /\ calls[p].ret \in {"error", "error_with_id"}
              => /\ messages[calls[p].mid].status = "failed"
                 /\ messages[calls[p].mid].error # ""

\* C4: a send with non-empty text to a phone without a Contact, with no
\* other request running, adds exactly one Contact (the formatted phone) and
\* exactly one Message, outbound and pending until the dispatch has
\* returned; after a success with provider id X it is sent and carries X.
C4_FreshSend ==
  \A p \in Procs :
    (calls[p].op = "send" /\ ~ calls[p].had0 /\ calls[p].content # "" /\ calls[p].mid # 0)
      => /\ Len(contacts) = calls[p].c0 + 1
         /\ WithPhone(calls[p].phone) = {calls[p].c0 + 1}
         /\ Len(messages) = calls[p].m0 + 1
         /\ calls[p].mid = calls[p].m0 + 1
         /\ messages[calls[p].mid].direction = "outbound"
         /\ messages[calls[p].mid].to_contact = calls[p].c0 + 1
         /\ messages[calls[p].mid].content = calls[p].content
         /\ calls[p].pc \in {"dispatch", "finish"}
              => messages[calls[p].mid].status = "pending"
         /\ (calls[p].pc = "done" /\ calls[p].result.success /\ calls[p].result.sid # 0)
              => /\ messages[calls[p].mid].status = "sent"
                 /\ messages[calls[p].mid].provider_message_id = calls[p].result.sid
                 /\ calls[p].ret = "message"

C4_Witness ==
  \E p \in Procs :
    /\ calls[p].op = "send" /\ ~ calls[p].had0 /\ calls[p].pc = "done"
    /\ calls[p].result.success /\ calls[p].result.sid # 0
    /\ calls[p].mid # 0 /\ messages[calls[p].mid].status = "sent"

\* C5: when an accepted Twilio webhook carrying MessageSid = X and
\* MessageStatus = delivered has been handled, the outbound Message whose
\* provider_message_id is X has status delivered.
C5_DeliveredCallbackApplied ==
  \A p \in Procs :
    (/\ calls[p].op = "hook_twilio" /\ calls[p].pc = "done"
     /\ calls[p].sig \in {"valid", "skipped"}
     /\ calls[p].sid # 0 /\ calls[p].pstatus = "delivered")
      => \A i \in 1..Len(messages) :
           (messages[i].direction = "outbound"
              /\ messages[i].provider_message_id = calls[p].sid)
             => messages[i].status = "delivered"

\* C6: an accepted Twilio inbound-message webhook whose sender has no
\* Contact and whose Body is not empty adds exactly one Contact (the
\* formatted From) and exactly one Message: inbound, delivered, content Body.
C6_InboundCreatesOne ==
  \A p \in Procs :
    (/\ calls[p].op = "hook_twilio" /\ calls[p].pc = "done"
     /\ calls[p].sig # "invalid" /\ calls[p].sid # 0
     /\ calls[p].phone # << >> /\ ~ calls[p].had0 /\ calls[p].content # "")
      => /\ Len(contacts) = calls[p].c0 + 1
         /\ contacts[calls[p].c0 + 1].phone = calls[p].phone
         /\ startswith_plus(calls[p].phone)
         /\ Len(messages) = calls[p].m0 + 1
         /\ messages[calls[p].m0 + 1].direction = "inbound"
         /\ messages[calls[p].m0 + 1].status = "delivered"
         /\ messages[calls[p].m0 + 1].content = calls[p].content
         /\ messages[calls[p].m0 + 1].from_user = calls[p].c0 + 1
         /\ calls[p].http = 200

C6_Witness ==
  \E p \in Procs :
    /\ calls[p].op = "hook_twilio" /\ calls[p].pc = "done" /\ calls[p].sig = "valid"
    /\ calls[p].sid # 0 /\ ~ calls[p].had0 /\ calls[p].content = "hi"
    /\ calls[p].made # 0 /\ calls[p].mid # 0

\* C7: the step in which the signature check of a Twilio webhook fails ends
\* the request with 403 and leaves both collections as they were, and the
\* rejected request changes nothing afterwards.
C7_InvalidSignatureRejected ==
  [][\A p \in Procs :
       (calls'[p].sig = "invalid" \/ calls[p].sig = "invalid")
         => /\ contacts' = contacts
            /\ messages' = messages
            /\ calls'[p].sig = "invalid"
                 => (calls'[p].http = 403 /\ calls'[p].pc = "done")]_vars

C7_Witness ==
  \E p \in Procs :
    /\ calls[p].sig = "invalid" /\ calls[p].http = 403 /\ calls[p].pc = "done"
    /\ Len(contacts) > 0 /\ Len(messages) > 0

\* C8: a POST webhook on any route writes to the contact or message
\* collection only if the request passed its authenticity check (a request
\* in trusted debug mode counts as passed).
C8_NoUnverifiedWrites ==
  [][\A p \in Procs :
       (/\ calls'[p].op \in HookOps
        /\ calls'[p] # calls[p]
        /\ (contacts' # contacts \/ messages' # messages))
         => calls'[p].sig \in {"valid", "skipped"}]_vars

\* C9: every POST webhook that is not rejected for its signature is
\* answered with 200.
C9_AlwaysAcknowledged ==
  \A p \in Procs :
    (calls[p].op \in HookOps /\ calls[p].pc = "done" /\ calls[p].sig # "invalid")
      => calls[p].http = 200

\* C10: handling a status callback (provider id, status) that was handled
\* before leaves the status of the Message with that provider id as it is
\* and appends exactly one entry to its status_history.
C10_ReplayAppendsOnly ==
  [][\A p \in Procs :
       (/\ calls[p].pc = "idle" /\ calls'[p].ret = "status"
        /\ calls'[p].sid # 0
        /\ <<calls'[p].sid, calls'[p].pstatus>> \in applied)
         => \A i \in 1..Len(messages) :
              messages[i].provider_message_id = calls'[p].sid
                => /\ messages'[i].status = messages[i].status
                   /\ Len(messages'[i].status_history)
                        = Len(messages[i].status_history) + 1]_vars

\* the slot has handled a status callback (through either webhook route)
StatusCallbackDone(p) ==
  /\ calls[p].op \in HookOps
  /\ calls[p].pc = "done"
  /\ calls[p].ret = "status"

\* the stored Messages that carry this provider message id
WithProviderId(sid) ==
  { i \in 1..Len(messages) : sid # 0 /\ messages[i].provider_message_id = sid }

\* C11: the lookup by provider message id that a status callback makes ends
\* without an error: it finds the Message that send_message or
\* receive_message stored with that id, and is absent for an id never stored.
C11_LookupByProviderId ==
  \A p \in Procs :
    StatusCallbackDone(p)
      => calls[p].lookup = IF WithProviderId(calls[p].sid) # {} THEN "found" ELSE "absent"

HasEntry(i, status) ==
  \E k \in 1..Len(messages[i].status_history) : messages[i].status_history[k] = status

\* C12: a status callback handled after the provider accepted a dispatch and
\* before send_message wrote its post-dispatch status is not lost: once both
\* are done, the status_history of that Message holds the callback's entry.
C12_EarlyCallbackKept ==
  \A p, q \in Procs :
    (/\ calls[q].op \in HookOps /\ calls[q].pc = "done"
     /\ calls[q].sig # "invalid" /\ calls[q].pstatus # ""
     /\ calls[q].race # 0
     /\ calls[p].op = "send" /\ calls[p].pc = "done" /\ calls[p].mid = calls[q].race)
      => HasEntry(calls[p].mid, calls[q].pstatus)

HandlesCallback(p) == calls[p].pc = "idle" /\ calls'[p].ret = "status"

\* C14: a status callback whose status string is outside the mapping table
\* (sent, delivered, read, failed, queued) adds its entry to the
\* status_history of the Message with that provider id and leaves the stored
\* status as it was; no Message is ever stored with status unknown.
C14_UnknownStatusRecorded ==
  [][/\ \A i \in 1..Len(messages') : messages'[i].status # "unknown"
     /\ \A p \in Procs :
          (HandlesCallback(p) /\ standard_status(calls'[p].pstatus) = "unknown")
            => \A i \in WithProviderId(calls'[p].sid) :
                 /\ messages'[i].status = messages[i].status
                 /\ messages'[i].status_history
                      = Append(messages[i].status_history, calls'[p].pstatus)]_vars

\* C15: a status callback never changes the status of a Message that is
\* stored as failed.
C15_FailedStaysFailed ==
  [][\A p \in Procs :
       HandlesCallback(p)
         => \A i \in 1..Len(messages) :
              messages[i].status = "failed" => messages'[i].status = "failed"]_vars

C15_Witness ==
  \E p \in Procs :
    /\ StatusCallbackDone(p)
    /\ calls[p].pstatus \in {"sent", "delivered", "read", "queued"}
    /\ \E i \in WithProviderId(calls[p].sid) : messages[i].status = "failed"

\* C16: a send_message call that created its Message and then failed returns
\* a result that carries the id of that Message and an error description.
C16_FailedSendNamesMessage ==
  \A p \in Procs :
    (calls[p].op = "send" /\ calls[p].pc = "done" /\ calls[p].mid # 0
       /\ calls[p].ret # "message")
      => calls[p].ret = "error_with_id"

\* C17: a status callback whose provider message id matches no Message
\* stored before it creates and changes nothing, raises no error and is
\* answered with 200.
C17_UnknownIdIgnored ==
  \A p \in Procs :
    (/\ calls[p].op \in HookOps /\ calls[p].pc = "done"
     /\ calls[p].sig # "invalid" /\ calls[p].pstatus # ""
     /\ \A i \in 1..calls[p].m0 : messages[i].provider_message_id # calls[p].sid)
      => /\ Len(contacts) = calls[p].c0
         /\ Len(messages) = calls[p].m0
         /\ calls[p].lookup # "AttributeError"
         /\ calls[p].http = 200

\* C18: the normalizer's result begins with '+', and normalizing the result
\* again gives the same string.
C18_NormalizeIdempotent ==
  /\ norm.pc \in {"once", "twice"} => startswith_plus(norm.once)
  /\ norm.pc = "twice" => norm.twice = norm.once

C18_Witness ==
  /\ norm.pc = "twice"
  /\ ~ startswith_plus(norm.phone)
  /\ Len(digits_only(norm.phone)) > 0
  /\ Len(digits_only(norm.phone)) < Len(norm.phone)
  /\ norm.once = <<"+">> \o digits_only(norm.phone)

\* C19: a send or an inbound message whose phone string holds no digit ends
\* with an error and creates neither a Contact nor a Message.
C19_NoDigitsRejected ==
  \A p \in Procs :
    (/\ calls[p].op \in ResolverOps /\ calls[p].pc # "idle"
     /\ calls[p].phone # << >> /\ digits_only(calls[p].phone) = << >>)
      => /\ calls[p].made = 0
         /\ calls[p].mid = 0
         /\ calls[p].pc = "done" => calls[p].ret = "error"

\* the Contacts created by a send or an inbound webhook
ByGateway == { i \in 1..Len(contacts) : contacts[i].source # "chat_api" }

\* C20: no two Contacts created by sends and inbound webhooks have phones
\* with the same digits.
C20_OneContactPerNumber ==
  \A i, j \in ByGateway :
    i # j => digits_only(contacts[i].phone) # digits_only(contacts[j].phone)

VerifyOps == {"verify", "verify_wh"}

\* C21: a GET verification request is answered 200 with the challenge only
\* if hub.mode is subscribe and hub.verify_token equals the configured
\* verify token.
C21_ChallengeOnlyForToken ==
  \A p \in Procs :
    (/\ calls[p].op \in VerifyOps /\ calls[p].pc = "done"
     /\ calls[p].http = 200 /\ calls[p].body = HubChallenge)
      => /\ calls[p].mode = "subscribe"
         /\ config.WHATSAPP_VERIFY_TOKEN # ""
         /\ calls[p].token = config.WHATSAPP_VERIFY_TOKEN

\* C22: the contact collection only grows, and a Contact is added only by a
\* send or an inbound message (not a status callback, a chat read or a
\* verification) for a phone that had no Contact.
C22_ContactLifecycle ==
  [][/\ Len(contacts') >= Len(contacts)
     /\ SubSeq(contacts', 1, Len(contacts)) = contacts
     /\ Len(contacts') > Len(contacts)
          => /\ \E p \in Procs :
                  /\ calls'[p].made = Len(contacts')
                  /\ calls'[p].op \in {"send", "hook_twilio", "hook_direct", "wh"}
                  /\ calls'[p].pstatus = ""
             /\ WithPhone(contacts'[Len(contacts')].phone) = {}]_vars

\* C23: a send_message call that rejects its input (it returns an error
\* without having created its Message) leaves both collections as they were
\* before the call.
C23_RejectedBeforeSideEffect ==
  \A p \in Procs :
    (calls[p].op = "send" /\ calls[p].pc = "done" /\ calls[p].ret = "error"
       /\ calls[p].mid = 0)
      => /\ Len(contacts) = calls[p].c0
         /\ Len(messages) = calls[p].m0

DirectOps == {"hook_direct", "wh"}

\* C24: when a direct-API payload with a statuses array has been handled, on
\* either route, the payload was not answered as unrecognized and every
\* element with an id and a status is in the status_history of the Message
\* with that provider id.
C24_EveryStatusApplied ==
  \A p \in Procs :
    (calls[p].op \in DirectOps /\ calls[p].pc = "done" /\ calls[p].sts # << >>)
      => /\ calls[p].ret # "error"
         /\ \A k \in 1..Len(calls[p].sts) :
              (calls[p].sts[k].id # 0 /\ calls[p].sts[k].status # "")
                => \A i \in WithProviderId(calls[p].sts[k].id) :
                     i <= calls[p].m0 => HasEntry(i, calls[p].sts[k].status)

\* C25: the cached provider, once set, never changes, and every dispatch of
\* send_message goes through the cached provider.
C25_OneProvider ==
  [][/\ provider # "None" => provider' = provider
     /\ \A p \in Procs :
          (calls'[p].op = "send" /\ calls'[p].via # "none" /\ provider' # "None")
            => calls'[p].via = provider']_vars

\* C26: a status PUT that names a message id not in the store is answered
\* 404 and changes neither collection.
C26_UnknownIdNotFound ==
  [][\A p \in Procs :
       (/\ calls[p].pc = "idle" /\ calls'[p].op = "put"
        /\ calls'[p].pstatus # ""
        /\ calls'[p].target \notin 1..Len(messages))
         => /\ calls'[p].http = 404
            /\ messages' = messages
            /\ contacts' = contacts]_vars

C26_Witness ==
  \E p \in Procs :
    /\ calls[p].op = "put" /\ calls[p].pc = "done" /\ calls[p].http = 404
    /\ calls[p].pstatus # "" /\ calls[p].target > Len(messages)
    /\ Len(messages) > 0

\* the step that accepts a request carrying a status callback
AcceptsCallback(p) ==
  /\ calls[p].pc = "idle"
  /\ calls'[p].op \in HookOps
  /\ calls'[p].ret = "status" \/ calls'[p].sts # << >>

CallbackIds(p) ==
  ({calls'[p].sid} \cup { calls'[p].sts[k].id : k \in 1..Len(calls'[p].sts) }) \ {0}

CallbackStatuses(p) ==
  {calls'[p].pstatus} \cup { calls'[p].sts[k].status : k \in 1..Len(calls'[p].sts) }

\* C27: the step that handles a status callback changes nothing but the
\* status and the status_history (by at most the callback's entry) of the
\* Message with that provider id; every other field of it, every other
\* Message and every Contact stay as they were.
C27_CallbackFrame ==
  [][\A p \in Procs :
       AcceptsCallback(p)
         => /\ contacts' = contacts
            /\ Len(messages') = Len(messages)
            /\ \A i \in 1..Len(messages) :
                 IF messages[i].provider_message_id \in CallbackIds(p)
                 THEN /\ [messages'[i] EXCEPT !.status = messages[i].status,
                                             !.status_history = messages[i].status_history]
                           = messages[i]
                      /\ \/ messages'[i].status_history = messages[i].status_history
                         \/ \E st \in CallbackStatuses(p) :
                              messages'[i].status_history
                                = Append(messages[i].status_history, st)
                 ELSE messages'[i] = messages[i]]_vars

C27_Witness ==
  \E p \in Procs :
    /\ StatusCallbackDone(p)
    /\ calls[p].lookup # "none"
    /\ \E i \in WithProviderId(calls[p].sid) :
         /\ i <= calls[p].m0
         /\ messages[i].content # ""

\* C28: a send_message call invokes the provider transport at most once,
\* and not before its pending Message is stored.
C28_DispatchAtMostOnce ==
  \A p \in Procs :
    calls[p].op = "send"
      => /\ calls[p].tries <= 1
         /\ calls[p].tries > 0
              => /\ calls[p].mid \in 1..Len(messages)
                 /\ calls[p].pc \in {"finish", "done"}

C28_Witness ==
  \E p \in Procs :
    /\ calls[p].op = "send" /\ calls[p].pc = "done" /\ calls[p].tries = 1
    /\ ~ calls[p].result.success
    /\ messages[calls[p].mid].status = "failed"

\* C29: a Message created from a direct-API inbound message, on either
\* route, is stored inbound and delivered, with the body as content, the
\* sender's Contact as its reference and the provider's message id.
C29_DirectInboundRecord ==
  \A p \in Procs :
    (calls[p].op \in DirectOps /\ calls[p].pc = "done" /\ calls[p].mid # 0)
      => /\ messages[calls[p].mid].direction = "inbound"
         /\ messages[calls[p].mid].status = "delivered"
         /\ messages[calls[p].mid].content # ""
         /\ messages[calls[p].mid].from_user = calls[p].contact
         /\ messages[calls[p].mid].provider_message_id # 0

\* C30: no two inbound Messages carry the same provider message id.
C30_ReplayCreatesNothing ==
  \A i, j \in 1..Len(messages) :
    (/\ i # j
     /\ messages[i].direction = "inbound" /\ messages[j].direction = "inbound"
     /\ messages[i].provider_message_id # 0)
      => messages[i].provider_message_id # messages[j].provider_message_id

====
